---- MODULE Spec2Model ----
(***************************************************************************)
(* Model of the csiWatcher of delete-pvc (src/unnamed/part_000): a         *)
(* directory watcher built on fsnotify.  One caller thread runs start()    *)
(* and stop(); start() spawns the consumer loop goroutine and one          *)
(* injection goroutine per pre-existing subdirectory; stop() spawns the    *)
(* goroutine that waits on the WaitGroup.  Every goroutine is a process of *)
(* the model and every blocking point of the code is a position of it.     *)
(***************************************************************************)
EXTENDS Integers, Sequences, FiniteSets, TLC

VARIABLES
    callerPc,       \* position of the caller thread inside start()/stop()
    startResult,    \* what start() returned: "none" (not returned), "ok", "err"
    stopResult,     \* what the last stop() returned: "none", "ok", "closeErr", "timeout"
    stopCh,         \* w.stopCh: "nil", "open", "closed"
    fsWatcher,      \* w.fsWatcher: "nil", "open", "closed"
    watchAttached,  \* fsWatcher.Add(w.path) succeeded
    wg,             \* counter of w.wg
    loopPc,         \* consumer loop: "none", "select", "filter", "handler", "done"
    loopEvent,      \* the event the consumer loop is working on
    listing,        \* what ioutil.ReadDir returned (name -> "absent"/"dir"/"file")
    scanIdx,        \* index of the next entry of the for loop of init()
    injector,       \* injection goroutine per name: "none", "blocked", "sent", "done"
    waiter,         \* goroutine of stop(): "none", "waiting", "closed" (c closed)
    calls,          \* number of invocations of w.csiHandler per name and origin of the event
    liveCount,      \* number of live events delivered so far
    errCount,       \* number of values received from fsWatcher.Errors
    panicked,       \* the process died of a runtime panic
    busyAtStop,     \* history: handler invocations running when stop() closed w.stopCh, -1 before
    dropped,        \* history: the reasons ("kind", "name") for which the filter dropped an event
    cmd             \* the delete-pvc command (src/main.go): its position, locals and calls

vars == <<callerPc, startResult, stopResult, stopCh, fsWatcher, watchAttached, wg,
          loopPc, loopEvent, listing, scanIdx, injector, waiter, calls,
          liveCount, errCount, panicked, busyAtStop, dropped, cmd>>

----------------------------------------------------------------------------
(* Bounds of the model *)

MaxNames == 2
MaxLive == 2
MaxErrors == 1

----------------------------------------------------------------------------
(* Constants of the program *)

ignoreDir == "kubernetes.io"

\* fsnotify.Op bits
Create == 1
Write == 2
Remove == 4
Chmod == 16

\* the path main() watches, as its sequence of components
WatchPath == <<"var", "lib", "kubelet", "plugins">>

NamePool == <<"A", "B", "C", "D", "E">>

\* leaf names that can appear under the watched path
Names == {ignoreDir} \cup {NamePool[i] : i \in 1..MaxNames}

\* ioutil.ReadDir returns the entries sorted by file name
RECURSIVE SortedNames(_)
SortedNames(S) ==
    IF S = {} THEN <<>>
    ELSE LET pool == <<ignoreDir>> \o NamePool
             i == CHOOSE k \in 1..Len(pool) :
                      /\ pool[k] \in S
                      /\ \A j \in 1..Len(pool) : pool[j] \in S => k <= j
         IN <<pool[i]>> \o SortedNames(S \ {pool[i]})

\* Op values the notification source is made to deliver
LiveOps == {Create, Remove, Chmod, Create + Write}

\* every name w.csiHandler can be given: the leaf of any event
HandlerNames == Names

NoEvent == [Name |-> <<>>, Op |-> 0, syn |-> FALSE, errs |-> 0]

----------------------------------------------------------------------------
(* Pure functions of the code *)

\* event.Op & bit == bit, for a single-bit mask
HasOp(op, bit) == (op \div bit) % 2 = 1

\* filepath.Join(w.path, name) for a non-empty name without separators
Join(path, name) == Append(path, name)

\* filepath.Base: the last element of the path, "." for the empty path
Base(path) == IF Len(path) = 0 THEN "." ELSE path[Len(path)]

\* the kind test with the Create flag forgotten
Eligible_removeOnly(op) == HasOp(op, Remove)

\* the kind test with the Remove flag forgotten
Eligible_createOnly(op) == HasOp(op, Create)

\* line 64: the kind test of the event filter
Eligible(op) == HasOp(op, Create) \/ HasOp(op, Remove)

\* the name test left out
NameAllowed_all(driverName) == TRUE

\* line 67: the name test of the event filter
NameAllowed(driverName) == driverName # ignoreDir

\* lines 64-70: whether the handler is called for the event
Dispatchable(event) == Eligible(event.Op) /\ NameAllowed(Base(event.Name))

\* the IsDir test left out
ShouldInject_anyEntry(kind, name) == name # ignoreDir

\* line 100: whether init() injects an event for a directory entry
ShouldInject(kind, name) == kind = "dir" /\ name # ignoreDir

\* lines 104-107: the event an injection goroutine sends
SyntheticEvent(name) == [Name |-> Join(WatchPath, name), Op |-> Create]

\* a non-nil error ends the loop
AfterError_exit(err) == IF err = "err" THEN "done" ELSE "select"

\* lines 77-81: the position of the loop after a value of the error stream
AfterError(err) == "select"

\* Wait returning with one task left
WaitReturns_early(counter) == counter <= 1

\* line 120: w.wg.Wait() returns when the counter is zero
WaitReturns(counter) == counter = 0

\* line 116: close(w.stopCh) panics on a nil and on a closed channel
CloseChPanics(ch) == ch # "open"

\* line 128: w.fsWatcher.Close() dereferences a nil *fsnotify.Watcher
CloseSourcePanics(fw) == fw = "nil"

----------------------------------------------------------------------------
(* The delete-pvc command, src/main.go: data and pure functions *)

MaxPods == 2
MaxLines == 2

\* sequences over S of length at most n
SeqUpTo(S, n) == UNION {[1..k -> S] : k \in 0..n}

\* values of the flags -pvc and -ns
FlagValues == {"", "test", "other"}


\* the volumes a pod is given: "nil" for a volume with no PVC source, else the
\* claim name of its PVC source
PodVolumes == {<<>>, <<"nil">>, <<"test">>, <<"other">>, <<"other", "test">>,
               <<"nil", "other">>}

\* names of workloads
WorkloadNames == {"web", "db"}

\* an owner reference (metav1.OwnerReference): Kind and Name; NilOwner: nil
NilOwner == [kind |-> "nil", name |-> ""]

\* the controller of a pod: its kind ("none": no controller), and, for a
\* ReplicaSet, what replicaSetClient.Get of it yields: "getErr", or the kind of
\* the controller of the ReplicaSet ("none": no controller); name is the name
\* of the StatefulSet or of the controller of the ReplicaSet
PodOwners ==
    {[kind |-> k, rs |-> "n/a", name |-> n] :
        k \in {"none", "StatefulSet", "Job"}, n \in WorkloadNames}
    \cup {[kind |-> "ReplicaSet", rs |-> r, name |-> n] :
             r \in {"getErr", "none", "Deployment", "DaemonSet"}, n \in WorkloadNames}

Pods == [volumes : PodVolumes, owner : PodOwners]

\* line 120: some volume of the pod has a PVC source with the claim name
RECURSIVE UsesPVC(_, _)
UsesPVC(volumes, pvcName) ==
    IF volumes = <<>> THEN FALSE
    ELSE IF Head(volumes) # "nil" /\ Head(volumes) = pvcName THEN TRUE
    ELSE UsesPVC(Tail(volumes), pvcName)

\* lines 121-140: the result for the first pod that uses the PVC
OwnerOfPod(pod) ==
    IF pod.owner.kind = "none" THEN [owner |-> NilOwner, err |-> TRUE]
    ELSE IF pod.owner.kind = "StatefulSet"
         THEN [owner |-> [kind |-> "StatefulSet", name |-> pod.owner.name], err |-> FALSE]
    ELSE IF pod.owner.kind = "ReplicaSet"
         THEN IF pod.owner.rs \in {"getErr", "none"}
              THEN [owner |-> NilOwner, err |-> TRUE]
              ELSE [owner |-> [kind |-> pod.owner.rs, name |-> pod.owner.name],
                    err |-> FALSE]
    ELSE [owner |-> NilOwner, err |-> TRUE]

\* lines 112-145: workloadOfPVC, the pod list having been obtained
RECURSIVE WorkloadOfPVC(_, _)
WorkloadOfPVC(pods, pvcName) ==
    IF pods = <<>> THEN [owner |-> NilOwner, err |-> FALSE]
    ELSE IF UsesPVC(Head(pods).volumes, pvcName) THEN OwnerOfPod(Head(pods))
    ELSE WorkloadOfPVC(Tail(pods), pvcName)

\* lines 148-155: whether deleteWorkload gets as far as an API call
WorkloadKindKnown(kind) == kind \in {"StatefulSet", "Deployment"}

\* a line typed at a prompt, as its sequence of characters (the newline left out)
Yes == <<"y", "e", "s">>
No == <<"n", "o">>
InputLines == {Yes, No, <<" ">> \o Yes, No \o <<" ", " ">>, <<"y">>, <<>>,
               Yes \o <<" ">> \o No}

\* line 177: strings.TrimSpace
RECURSIVE TrimLeft(_)
TrimLeft(l) == IF l # <<>> /\ Head(l) = " " THEN TrimLeft(Tail(l)) ELSE l
RECURSIVE TrimRight(_)
TrimRight(l) ==
    IF l # <<>> /\ l[Len(l)] = " " THEN TrimRight(SubSeq(l, 1, Len(l) - 1)) ELSE l
TrimSpace(l) == TrimRight(TrimLeft(l))

\* lines 169-185: confirm, given the lines standard input still yields (after
\* them ReadString fails): "yes", "no", or "err" for (false, err)
RECURSIVE Confirm(_)
Confirm(lines) ==
    IF lines = <<>> THEN "err"
    ELSE IF TrimSpace(Head(lines)) = Yes THEN "yes"
    ELSE IF TrimSpace(Head(lines)) = No THEN "no"
    ELSE Confirm(Tail(lines))

\* lines 85, 93, 102: the boolean a caller of confirm looks at (err is dropped)
Confirmed(answer) == answer = "yes"

\* the retain error being ignored
AfterRetain_ignoreErr(err) == "confirm3"

\* lines 94-98: where main goes after retainPV
AfterRetain(err) == IF err THEN "exit" ELSE "confirm3"

\* main before its first statement
CmdStart == [pc |-> "flags", pvc |-> "", ns |-> "", owner |-> NilOwner, log |-> <<>>]

----------------------------------------------------------------------------
Init ==
    /\ callerPc = "idle"
    /\ startResult = "none"
    /\ stopResult = "none"
    /\ stopCh = "nil"
    /\ fsWatcher = "nil"
    /\ watchAttached = FALSE
    /\ wg = 0
    /\ loopPc = "none"
    /\ loopEvent = NoEvent
    /\ listing = [n \in Names |-> "absent"]
    /\ scanIdx = 0
    /\ injector = [n \in Names |-> "none"]
    /\ waiter = "none"
    /\ calls = [n \in HandlerNames, syn \in BOOLEAN |-> 0]
    /\ liveCount = 0
    /\ errCount = 0
    /\ panicked = FALSE
    /\ busyAtStop = -1
    /\ dropped = {}
    /\ cmd = CmdStart

----------------------------------------------------------------------------
(* start(), lines 47-92, and init(), lines 94-113 *)

\* line 48
StartMakeCh ==
    /\ ~panicked /\ callerPc = "idle" /\ startResult = "none" /\ stopCh = "nil"
    /\ stopCh' = "open"
    /\ callerPc' = "start_newwatcher"
    /\ UNCHANGED <<startResult, stopResult, fsWatcher, watchAttached, wg, loopPc,
                   loopEvent, listing, scanIdx, injector, waiter, calls, liveCount, errCount, panicked,
                   busyAtStop, dropped, cmd>>

\* lines 49-53
StartNewWatcher ==
    /\ ~panicked /\ callerPc = "start_newwatcher"
    /\ \/ /\ fsWatcher' = "open"
          /\ callerPc' = "start_spawn"
          /\ UNCHANGED startResult
       \/ /\ startResult' = "err"
          /\ callerPc' = "idle"
          /\ UNCHANGED fsWatcher
    /\ UNCHANGED <<stopResult, stopCh, watchAttached, wg, loopPc, loopEvent, listing,
                   scanIdx, injector, waiter, calls, liveCount, errCount,
                   panicked,
                   busyAtStop, dropped, cmd>>

\* lines 55-56
StartSpawnLoop ==
    /\ ~panicked /\ callerPc = "start_spawn"
    /\ wg' = wg + 1
    /\ loopPc' = "select"
    /\ callerPc' = "start_readdir"
    /\ UNCHANGED <<startResult, stopResult, stopCh, fsWatcher, watchAttached,
                   loopEvent, listing, scanIdx, injector, waiter, calls, liveCount, errCount, panicked,
                   busyAtStop, dropped, cmd>>

\* fsWatcher.Add(w.path) called before init() instead of after it
StartReadDir_attachFirst ==
    /\ ~panicked /\ callerPc = "start_readdir"
    /\ \/ \E l \in [Names -> {"absent", "dir", "file"}] :
              /\ listing' = l
              /\ scanIdx' = 1
              /\ callerPc' = "start_scan"
              /\ watchAttached' = TRUE
              /\ UNCHANGED startResult
       \/ /\ startResult' = "err"
          /\ callerPc' = "idle"
          /\ UNCHANGED <<listing, scanIdx, watchAttached>>
    /\ UNCHANGED <<stopResult, stopCh, fsWatcher, wg, loopPc,
                   loopEvent, injector, waiter, calls, liveCount, errCount,
                   panicked,
                   busyAtStop, dropped, cmd>>

\* lines 95-98 and 87-90
StartReadDir ==
    /\ ~panicked /\ callerPc = "start_readdir"
    /\ \/ \E l \in [Names -> {"absent", "dir", "file"}] :
              /\ listing' = l
              /\ scanIdx' = 1
              /\ callerPc' = "start_scan"
              /\ UNCHANGED startResult
       \/ /\ startResult' = "err"
          /\ callerPc' = "idle"
          /\ UNCHANGED <<listing, scanIdx>>
    /\ UNCHANGED <<stopResult, stopCh, fsWatcher, watchAttached, wg, loopPc,
                   loopEvent, injector, waiter, calls, liveCount, errCount,
                   panicked,
                   busyAtStop, dropped, cmd>>

\* the entries ReadDir returned, in order
Files == SortedNames({n \in Names : listing[n] # "absent"})

\* lines 99-110: one iteration of the for loop
StartScanEntry ==
    /\ ~panicked /\ callerPc = "start_scan" /\ scanIdx <= Len(Files)
    /\ LET name == Files[scanIdx] IN
          IF ShouldInject(listing[name], name)
          THEN /\ wg' = wg + 1
               /\ injector' = [injector EXCEPT ![name] = "blocked"]
          ELSE UNCHANGED <<wg, injector>>
    /\ scanIdx' = scanIdx + 1
    /\ UNCHANGED <<callerPc, startResult, stopResult, stopCh, fsWatcher,
                   watchAttached, loopPc, loopEvent, listing, waiter, calls, liveCount, errCount, panicked,
                   busyAtStop, dropped, cmd>>

\* lines 111 and 91
StartAddWatch ==
    /\ ~panicked /\ callerPc = "start_scan" /\ scanIdx > Len(Files)
    /\ \/ watchAttached' = TRUE /\ startResult' = "ok"
       \/ startResult' = "err" /\ UNCHANGED watchAttached
    /\ callerPc' = "idle"
    /\ UNCHANGED <<stopResult, stopCh, fsWatcher, wg, loopPc, loopEvent, listing,
                   scanIdx, injector, waiter, calls, liveCount, errCount,
                   panicked,
                   busyAtStop, dropped, cmd>>

----------------------------------------------------------------------------
(* The injection goroutines, lines 102-108 *)

\* lines 103: the deferred w.wg.Done() after the send went through
InjectorDone(n) ==
    /\ ~panicked /\ injector[n] = "sent"
    /\ injector' = [injector EXCEPT ![n] = "done"]
    /\ wg' = wg - 1
    /\ UNCHANGED <<callerPc, startResult, stopResult, stopCh, fsWatcher,
                   watchAttached, loopPc, loopEvent, listing, scanIdx, waiter, calls,
                   liveCount, errCount, panicked,
                   busyAtStop, dropped, cmd>>

----------------------------------------------------------------------------
(* The consumer loop, lines 56-86 *)

\* w.wg.Add(1) of line 61 forgotten
LoopTake_noAdd(event, syn) ==
    /\ loopEvent' = [Name |-> event.Name, Op |-> event.Op, syn |-> syn, errs |-> errCount]
    /\ wg' = wg
    /\ loopPc' = "filter"

\* lines 60-61: receive of an event and w.wg.Add(1)
\* (syn and errs are history fields: the origin of the event and the number of
\* errors the loop had received before it)
LoopTake(event, syn) ==
    /\ loopEvent' = [Name |-> event.Name, Op |-> event.Op, syn |-> syn, errs |-> errCount]
    /\ wg' = wg + 1
    /\ loopPc' = "filter"

\* the stop case leaving the select only (break), the loop receiving again
LoopRecvInjected_afterExit(n) ==
    /\ ~panicked /\ loopPc \in {"select", "done"} /\ injector[n] = "blocked"
    /\ LoopTake(SyntheticEvent(n), TRUE)
    /\ injector' = [injector EXCEPT ![n] = "sent"]
    /\ UNCHANGED <<callerPc, startResult, stopResult, stopCh, fsWatcher,
                   watchAttached, listing, scanIdx, waiter, calls, liveCount,
                   errCount, panicked,
                   busyAtStop, dropped, cmd>>

\* line 60, the sender being an injection goroutine (line 104)
LoopRecvInjected(n) ==
    /\ ~panicked /\ loopPc = "select" /\ injector[n] = "blocked"
    /\ LoopTake(SyntheticEvent(n), TRUE)
    /\ injector' = [injector EXCEPT ![n] = "sent"]
    /\ UNCHANGED <<callerPc, startResult, stopResult, stopCh, fsWatcher,
                   watchAttached, listing, scanIdx, waiter, calls, liveCount,
                   errCount, panicked,
                   busyAtStop, dropped, cmd>>

\* line 60, the sender being the notification source
LoopRecvLive(n, op) ==
    /\ ~panicked /\ loopPc = "select"
    /\ fsWatcher = "open" /\ watchAttached /\ liveCount < MaxLive
    /\ LoopTake([Name |-> Join(WatchPath, n), Op |-> op], FALSE)
    /\ liveCount' = liveCount + 1
    /\ UNCHANGED <<callerPc, startResult, stopResult, stopCh, fsWatcher,
                   watchAttached, listing, scanIdx, injector, waiter, calls,
                   errCount, panicked,
                   busyAtStop, dropped, cmd>>

\* the handler called in a goroutine of its own (go func), the loop going on
LoopFilter_async ==
    /\ ~panicked /\ loopPc = "filter"
    /\ IF Dispatchable(loopEvent)
       THEN /\ calls' = [calls EXCEPT ![Base(loopEvent.Name), loopEvent.syn] = @ + 1]
            /\ loopPc' = "select"
            /\ loopEvent' = NoEvent
            /\ UNCHANGED <<wg, dropped>>
       ELSE /\ wg' = wg - 1
            /\ loopPc' = "select"
            /\ loopEvent' = NoEvent
            /\ dropped' = dropped \cup {IF Eligible(loopEvent.Op) THEN "name" ELSE "kind"}
            /\ UNCHANGED calls
    /\ UNCHANGED <<callerPc, startResult, stopResult, stopCh, fsWatcher,
                   watchAttached, listing, scanIdx, injector, waiter, liveCount, errCount, panicked,
                   busyAtStop, cmd>>

\* lines 62-75: the filter; the handler is entered or the event is dropped
LoopFilter ==
    /\ ~panicked /\ loopPc = "filter"
    /\ IF Dispatchable(loopEvent)
       THEN /\ calls' = [calls EXCEPT ![Base(loopEvent.Name), loopEvent.syn] = @ + 1]
            /\ loopPc' = "handler"
            /\ UNCHANGED <<wg, loopEvent, dropped>>
       ELSE /\ wg' = wg - 1
            /\ loopPc' = "select"
            /\ loopEvent' = NoEvent
            /\ dropped' = dropped \cup {IF Eligible(loopEvent.Op) THEN "name" ELSE "kind"}
            /\ UNCHANGED calls
    /\ UNCHANGED <<callerPc, startResult, stopResult, stopCh, fsWatcher,
                   watchAttached, listing, scanIdx, injector, waiter, liveCount, errCount, panicked,
                   busyAtStop, cmd>>

\* lines 69-76: w.csiHandler returns, deferred w.wg.Done(), continue
HandlerReturn ==
    /\ ~panicked /\ loopPc = "handler"
    /\ wg' = wg - 1
    /\ loopPc' = "select"
    /\ loopEvent' = NoEvent
    /\ UNCHANGED <<callerPc, startResult, stopResult, stopCh, fsWatcher,
                   watchAttached, listing, scanIdx, injector, waiter, calls, liveCount, errCount, panicked,
                   busyAtStop, dropped, cmd>>

\* lines 77-81
LoopRecvError(err) ==
    /\ ~panicked /\ loopPc = "select"
    /\ fsWatcher = "open" /\ errCount < MaxErrors
    /\ errCount' = errCount + 1
    /\ loopPc' = AfterError(err)
    /\ UNCHANGED <<callerPc, startResult, stopResult, stopCh, fsWatcher,
                   watchAttached, wg, loopEvent, listing, scanIdx, injector, waiter,
                   calls, liveCount, panicked,
                   busyAtStop, dropped, cmd>>

\* lines 82-83 and 57: the stop signal is taken, deferred w.wg.Done()
LoopStop ==
    /\ ~panicked /\ loopPc = "select" /\ stopCh = "closed"
    /\ loopPc' = "done"
    /\ wg' = wg - 1
    /\ UNCHANGED <<callerPc, startResult, stopResult, stopCh, fsWatcher,
                   watchAttached, loopEvent, listing, scanIdx, injector, waiter,
                   calls, liveCount, errCount, panicked,
                   busyAtStop, dropped, cmd>>

----------------------------------------------------------------------------
(* stop(), lines 115-136 *)

\* lines 116-121
StopCloseCh ==
    /\ ~panicked /\ callerPc = "idle"
    /\ IF CloseChPanics(stopCh)
       THEN /\ panicked' = TRUE
            /\ UNCHANGED <<stopCh, waiter, callerPc, stopResult, busyAtStop>>
       ELSE /\ stopCh' = "closed"
            /\ busyAtStop' = IF loopPc = "handler" THEN 1 ELSE 0
            /\ waiter' = "waiting"
            /\ callerPc' = "stop_select"
            /\ stopResult' = "none"
            /\ UNCHANGED panicked
    /\ UNCHANGED <<startResult, fsWatcher, watchAttached, wg, loopPc, loopEvent,
                   listing, scanIdx, injector, calls, liveCount, errCount,
                   dropped, cmd>>

\* lines 118-121: w.wg.Wait() returns and c is closed
WaiterDone ==
    /\ ~panicked /\ waiter = "waiting" /\ WaitReturns(wg)
    /\ waiter' = "closed"
    /\ UNCHANGED <<callerPc, startResult, stopResult, stopCh, fsWatcher,
                   watchAttached, wg, loopPc, loopEvent, listing, scanIdx, injector,
                   calls, liveCount, errCount, panicked,
                   busyAtStop, dropped, cmd>>

\* lines 123-124
StopDrained ==
    /\ ~panicked /\ callerPc = "stop_select" /\ waiter = "closed"
    /\ callerPc' = "stop_close"
    /\ UNCHANGED <<startResult, stopResult, stopCh, fsWatcher, watchAttached, wg,
                   loopPc, loopEvent, listing, scanIdx, injector, waiter, calls,
                   liveCount, errCount, panicked,
                   busyAtStop, dropped, cmd>>

\* line 125: time.After(11 * time.Second) against c.  The 11 seconds dwarf the
\* time a runnable goroutine needs to take its next step, so the timer fires
\* first only while every goroutine of the session is inside the handler or
\* blocked on a channel operation that has no partner.
GoroutineRunnable ==
    \/ loopPc = "filter"
    \/ loopPc = "select" /\ (stopCh = "closed" \/ \E n \in Names : injector[n] = "blocked")
    \/ \E n \in Names : injector[n] = "sent"
    \/ waiter = "waiting" /\ WaitReturns(wg)
    \/ waiter = "closed"

TimerCanFire == ~GoroutineRunnable

\* the timeout branch falling through to w.fsWatcher.Close()
StopTimeout_closes ==
    /\ ~panicked /\ callerPc = "stop_select" /\ TimerCanFire
    /\ stopResult' = "timeout"
    /\ fsWatcher' = IF fsWatcher = "open" THEN "closed" ELSE fsWatcher
    /\ callerPc' = "idle"
    /\ UNCHANGED <<startResult, stopCh, watchAttached, wg, loopPc, loopEvent,
                   listing, scanIdx, injector, waiter, calls, liveCount, errCount,
                   panicked, busyAtStop, dropped, cmd>>

\* lines 125-126
StopTimeout ==
    /\ ~panicked /\ callerPc = "stop_select" /\ TimerCanFire
    /\ stopResult' = "timeout"
    /\ callerPc' = "idle"
    /\ UNCHANGED <<startResult, stopCh, fsWatcher, watchAttached, wg, loopPc,
                   loopEvent, listing, scanIdx, injector, waiter, calls, liveCount, errCount, panicked,
                   busyAtStop, dropped, cmd>>

\* w.fsWatcher.Close() left out of the drained branch
StopCloseSource_noClose ==
    /\ ~panicked /\ callerPc = "stop_close"
    /\ IF CloseSourcePanics(fsWatcher)
       THEN /\ panicked' = TRUE
            /\ UNCHANGED <<fsWatcher, stopResult, callerPc>>
       ELSE /\ fsWatcher' = fsWatcher
            /\ \E r \in {"ok", "closeErr"} : stopResult' = r
            /\ callerPc' = "idle"
            /\ UNCHANGED panicked
    /\ UNCHANGED <<startResult, stopCh, watchAttached, wg, loopPc, loopEvent,
                   listing, scanIdx, injector, waiter, calls, liveCount,
                   errCount,
                   busyAtStop, dropped, cmd>>

\* lines 128-135
StopCloseSource ==
    /\ ~panicked /\ callerPc = "stop_close"
    /\ IF CloseSourcePanics(fsWatcher)
       THEN /\ panicked' = TRUE
            /\ UNCHANGED <<fsWatcher, stopResult, callerPc>>
       ELSE /\ fsWatcher' = "closed"
            /\ \E r \in {"ok", "closeErr"} : stopResult' = r
            /\ callerPc' = "idle"
            /\ UNCHANGED panicked
    /\ UNCHANGED <<startResult, stopCh, watchAttached, wg, loopPc, loopEvent,
                   listing, scanIdx, injector, waiter, calls, liveCount,
                   errCount,
                   busyAtStop, dropped, cmd>>

----------------------------------------------------------------------------
Next ==
    \/ StartMakeCh
    \/ StartNewWatcher
    \/ StartSpawnLoop
    \/ StartReadDir
    \/ StartScanEntry
    \/ StartAddWatch
    \/ \E n \in Names : InjectorDone(n)
    \/ \E n \in Names : LoopRecvInjected(n)
    \/ \E n \in Names, op \in LiveOps : LoopRecvLive(n, op)
    \/ LoopFilter
    \/ HandlerReturn
    \/ \E err \in {"nil", "err"} : LoopRecvError(err)
    \/ LoopStop
    \/ StopCloseCh
    \/ WaiterDone
    \/ StopDrained
    \/ StopTimeout
    \/ StopCloseSource

Spec == Init /\ [][Next]_vars

\* Scheduling of the Go runtime: a runnable goroutine eventually runs, a select
\* whose case stays ready eventually takes a case, the timer of stop() fires, and
\* a handler invocation returns.  Nothing obliges the caller to call start() or
\* stop(), nor the notification source to deliver events or errors.
Fairness ==
    /\ WF_vars(StartNewWatcher)
    /\ WF_vars(StartSpawnLoop)
    /\ WF_vars(StartReadDir)
    /\ WF_vars(StartScanEntry)
    /\ WF_vars(StartAddWatch)
    /\ WF_vars(\E n \in Names : InjectorDone(n))
    /\ WF_vars(\E n \in Names : LoopRecvInjected(n))
    /\ WF_vars(LoopFilter)
    /\ WF_vars(HandlerReturn)
    /\ WF_vars(LoopStop)
    /\ WF_vars(WaiterDone)
    /\ WF_vars(StopDrained)
    /\ WF_vars(StopTimeout)
    /\ WF_vars(StopCloseSource)

LiveSpec == Init /\ [][Next]_vars /\ Fairness

----------------------------------------------------------------------------
(* The delete-pvc command, src/main.go: main *)

watcherVars == <<callerPc, startResult, stopResult, stopCh, fsWatcher, watchAttached,
                 wg, loopPc, loopEvent, listing, scanIdx, injector, waiter, calls,
                 liveCount, errCount, panicked, busyAtStop, dropped>>

\* the step of main to position pc, entry appended to the log of calls and answers
CmdGoto(pc, entry) ==
    cmd' = [cmd EXCEPT !.pc = pc, !.log = Append(@, entry)]

\* lines 47-54
CmdFlags(pvcName, namespace) ==
    /\ cmd.pc = "flags"
    /\ cmd' = [cmd EXCEPT !.pvc = pvcName, !.ns = namespace,
                          !.pc = IF pvcName = "" \/ namespace = ""
                                 THEN "exit" ELSE "config"]
    /\ UNCHANGED watcherVars

\* lines 56-59
CmdBuildConfig(err) ==
    /\ cmd.pc = "config"
    /\ cmd' = [cmd EXCEPT !.pc = IF err THEN "exit" ELSE "clientset"]
    /\ UNCHANGED watcherVars

\* lines 61-71
CmdNewClient(err) ==
    /\ cmd.pc = "clientset"
    /\ cmd' = [cmd EXCEPT !.pc = IF err THEN "exit" ELSE "resolve"]
    /\ UNCHANGED watcherVars

\* lines 73-77 with 113-116: podClient.List fails
CmdResolveListFails ==
    /\ cmd.pc = "resolve"
    /\ CmdGoto("exit", "workloadOfPVC:err")
    /\ UNCHANGED watcherVars

\* lines 73-82
CmdResolve(pods) ==
    /\ cmd.pc = "resolve"
    /\ LET r == WorkloadOfPVC(pods, cmd.pvc) IN
          IF r.err THEN CmdGoto("exit", "workloadOfPVC:err")
          ELSE IF r.owner = NilOwner THEN CmdGoto("exit", "workloadOfPVC:nil")
          ELSE cmd' = [cmd EXCEPT !.pc = "confirm1", !.owner = r.owner,
                                  !.log = Append(@, "workloadOfPVC:owner")]
    /\ UNCHANGED watcherVars

\* lines 84-85 and 109-110
CmdConfirm1(lines) ==
    /\ cmd.pc = "confirm1"
    /\ LET a == Confirm(lines) IN
          CmdGoto(IF Confirmed(a) THEN "deleteWorkload" ELSE "exit",
                  IF a = "yes" THEN "confirm1:yes"
                  ELSE IF a = "no" THEN "confirm1:no" ELSE "confirm1:err")
    /\ UNCHANGED watcherVars

\* lines 86-90 with 147-156; apiErr: the Delete call of the workload fails
CmdDeleteWorkload(apiErr) ==
    /\ cmd.pc = "deleteWorkload"
    /\ IF WorkloadKindKnown(cmd.owner.kind) /\ ~apiErr
       THEN CmdGoto("confirm2", "deleteWorkload:ok")
       ELSE CmdGoto("exit", "deleteWorkload:err")
    /\ UNCHANGED watcherVars

\* lines 92-93
CmdConfirm2(lines) ==
    /\ cmd.pc = "confirm2"
    /\ LET a == Confirm(lines) IN
          CmdGoto(IF Confirmed(a) THEN "retainPV" ELSE "confirm3",
                  IF a = "yes" THEN "confirm2:yes"
                  ELSE IF a = "no" THEN "confirm2:no" ELSE "confirm2:err")
    /\ UNCHANGED watcherVars

\* lines 94-99 with 158-167; getErr, patchErr: pvcClient.Get, pvClient.Patch fail
CmdRetainPV(getErr, patchErr) ==
    /\ cmd.pc = "retainPV"
    /\ LET err == getErr \/ patchErr IN
          CmdGoto(AfterRetain(err), IF err THEN "retainPV:err" ELSE "retainPV:ok")
    /\ UNCHANGED watcherVars

\* lines 101-102 and 108-110
CmdConfirm3(lines) ==
    /\ cmd.pc = "confirm3"
    /\ LET a == Confirm(lines) IN
          CmdGoto(IF Confirmed(a) THEN "deletePVC" ELSE "exit",
                  IF a = "yes" THEN "confirm3:yes"
                  ELSE IF a = "no" THEN "confirm3:no" ELSE "confirm3:err")
    /\ UNCHANGED watcherVars

\* lines 103-107
CmdDeletePVC(apiErr) ==
    /\ cmd.pc = "deletePVC"
    /\ CmdGoto("exit", IF apiErr THEN "deletePVC:err" ELSE "deletePVC:ok")
    /\ UNCHANGED watcherVars

CmdNext ==
    \/ \E pvcName \in FlagValues, namespace \in FlagValues : CmdFlags(pvcName, namespace)
    \/ \E err \in BOOLEAN : CmdBuildConfig(err)
    \/ \E err \in BOOLEAN : CmdNewClient(err)
    \/ CmdResolveListFails
    \/ \E pods \in SeqUpTo(Pods, MaxPods) : CmdResolve(pods)
    \/ \E lines \in SeqUpTo(InputLines, MaxLines) : CmdConfirm1(lines)
    \/ \E apiErr \in BOOLEAN : CmdDeleteWorkload(apiErr)
    \/ \E lines \in SeqUpTo(InputLines, MaxLines) : CmdConfirm2(lines)
    \/ \E getErr \in BOOLEAN, patchErr \in BOOLEAN : CmdRetainPV(getErr, patchErr)
    \/ \E lines \in SeqUpTo(InputLines, MaxLines) : CmdConfirm3(lines)
    \/ \E apiErr \in BOOLEAN : CmdDeletePVC(apiErr)

CmdSpec == Init /\ [][CmdNext]_vars

----------------------------------------------------------------------------
(* Vocabulary of the claims *)

\* the subdirectories the initial listing found, the reserved name left out
ScannedDirs == {n \in Names : listing[n] = "dir" /\ n # "kubernetes.io"}

\* the kind of a record has the Create flag (1) or the Remove flag (4)
CreateOrRemove(op) == (op \div 1) % 2 = 1 \/ (op \div 4) % 2 = 1

\* a step of stop() that returns to the caller
StopReturns == callerPc \in {"stop_select", "stop_close"} /\ callerPc' = "idle"

\* stop() has returned
StopReturned == stopResult # "none" /\ callerPc = "idle"

\* a step of one of the tasks the WaitGroup tracks
TrackedStep ==
    \/ LoopFilter
    \/ HandlerReturn
    \/ LoopStop
    \/ \E n \in Names : LoopRecvInjected(n)
    \/ \E n \in Names : InjectorDone(n)

----------------------------------------------------------------------------
(* C1 *)

----------------------------------------------------------------------------
(* C2 *)

\* C2: after stop() on a started session every tracked task eventually finishes
\* and the counter reaches zero; so, as long as the counter is not zero, some
\* tracked task must still be able to take a step (process panics left aside).
C2_TrackedTasksCanFinish ==
    (stopCh = "closed" /\ startResult = "ok" /\ ~panicked)
        => (wg = 0 \/ ENABLED TrackedStep)

----------------------------------------------------------------------------
(* C3 *)

\* C3: no call of stop() panics the process, whether start() has not run, has
\* not finished wiring, or stop() has been called before.
C3_StopNeverPanics == ~panicked

----------------------------------------------------------------------------
(* C4 *)

\* C4: when stop() has returned anything but the timeout error, the counter is
\* zero and no tracked task (consumer loop, handler invocation, injection) is
\* unfinished.
C4_NoReturnWhileTracked ==
    (StopReturned /\ stopResult # "timeout") =>
        /\ wg = 0
        /\ loopPc \notin {"select", "filter", "handler"}
        /\ \A n \in Names : injector[n] \notin {"blocked", "sent"}

\* stop() was called during a handler invocation, waited, and returned nil
C4_Witness == stopResult = "ok" /\ callerPc = "idle" /\ busyAtStop = 1

----------------------------------------------------------------------------
(* C5 *)

\* C5: once stop() has returned, whatever it returned, no handler invocation
\* begins.
C5_NoDispatchAfterStopReturns == [][StopReturned => calls' = calls]_vars

----------------------------------------------------------------------------
(* C6 *)

\* C6: the handler is never invoked with the name 'kubernetes.io', neither for a
\* directory present before start() nor for a live event.
C6_ReservedNeverDispatched ==
    /\ \A syn \in BOOLEAN : calls["kubernetes.io", syn] = 0
    /\ loopPc = "handler" => Base(loopEvent.Name) # "kubernetes.io"

\* the reserved directory was there at start() and a live create or remove of it
\* went through the filter
C6_Witness ==
    /\ listing["kubernetes.io"] = "dir" /\ startResult = "ok"
    /\ "name" \in dropped

----------------------------------------------------------------------------
(* C7 *)

\* C7: a record the loop received reaches the handler if and only if its kind has
\* the Create or the Remove flag and its leaf name is not 'kubernetes.io'; any
\* other record is dropped, and nothing else invokes the handler.
C7_DispatchIffEligible ==
    [][/\ (loopPc = "filter" /\ loopPc' # "filter") =>
            LET leaf == Base(loopEvent.Name) IN
            IF CreateOrRemove(loopEvent.Op) /\ leaf # "kubernetes.io"
            THEN /\ loopPc' = "handler"
                 /\ calls' = [calls EXCEPT ![leaf, loopEvent.syn] = @ + 1]
            ELSE /\ loopPc' = "select"
                 /\ calls' = calls
       /\ calls' # calls => loopPc = "filter"]_vars

\* a record of another kind has been dropped and a record with the union
\* Create|Write is in the handler
C7_Witness ==
    /\ "kind" \in dropped
    /\ loopPc = "handler" /\ loopEvent.Op = Create + Write /\ ~loopEvent.syn

----------------------------------------------------------------------------
(* C8 *)

\* C8: while the session is not stopped, every live record the loop received
\* whose kind has the Create or Remove flag and whose leaf name is not
\* 'kubernetes.io' leads to one more handler invocation with that leaf name.
C8_LiveEventDispatched ==
    \A n \in Names \ {"kubernetes.io"}, k \in 0..MaxLive :
        (/\ loopPc = "filter" /\ ~loopEvent.syn
         /\ CreateOrRemove(loopEvent.Op) /\ Base(loopEvent.Name) = n
         /\ calls[n, FALSE] = k)
        ~> (calls[n, FALSE] = k + 1 \/ stopCh # "open")

\* a directory absent at start() got a second invocation, the record in the
\* handler being its remove, the session not stopped
C8_Witness ==
    /\ listing[NamePool[1]] = "absent" /\ stopCh = "open"
    /\ calls[NamePool[1], FALSE] = 2
    /\ loopPc = "handler" /\ loopEvent.Op = Remove /\ ~loopEvent.syn
    /\ Base(loopEvent.Name) = NamePool[1]

----------------------------------------------------------------------------
(* C9 *)

----------------------------------------------------------------------------
(* C10 *)

\* C10: a value of the error stream leaves the consumer loop running, at its
\* select and with nothing else changed; the loop ends only on the stop signal;
\* and a Create or Remove record received after errors, its leaf name not being
\* 'kubernetes.io', leaves the filter into the handler.
C10_ErrorsKeepLoopRunning ==
    /\ [][errCount' # errCount =>
             /\ loopPc' = "select"
             /\ wg' = wg /\ calls' = calls /\ stopCh' = stopCh]_vars
    /\ [](loopPc = "done" => stopCh = "closed")
    /\ [][(/\ loopPc = "filter" /\ loopPc' # "filter" /\ loopEvent.errs >= 1
           /\ CreateOrRemove(loopEvent.Op)
           /\ Base(loopEvent.Name) # "kubernetes.io") =>
             /\ loopPc' = "handler"
             /\ calls' = [calls EXCEPT ![Base(loopEvent.Name), loopEvent.syn] = @ + 1]]_vars

\* a record received after an error is in the handler
C10_Witness ==
    /\ loopPc = "handler" /\ loopEvent.errs >= 1 /\ ~loopEvent.syn
    /\ stopCh = "open"

----------------------------------------------------------------------------
(* C11 *)

\* C11: the consumer loop does not wait for a handler invocation: while one has
\* not finished, the loop can take the next record that is available to it (a
\* pending injected event, the raised stop signal).
C11_LoopFreeDuringHandler ==
    (loopPc = "handler" /\ ~panicked) =>
        /\ (\E n \in Names : injector[n] = "blocked")
              => ENABLED (\E n \in Names : LoopRecvInjected(n))
        /\ stopCh = "closed" => ENABLED LoopStop

----------------------------------------------------------------------------
(* C12 *)

\* C12 as stated: once the stop signal is raised, the only step the loop takes
\* from its select is the exit, whatever else is available.
C12_ExitsAtFirstSelectAfterSignal ==
    [][(loopPc = "select" /\ stopCh = "closed" /\ loopPc' # "select")
          => loopPc' = "done"]_vars

\* C12 amended: once the loop has taken the stop signal it has exited for good and
\* starts no dispatch; at a select that begins after the signal is raised the
\* exit is always possible, but not forced when an event is available too.
C12_NoDispatchOnceStopTaken ==
    /\ [][loopPc = "done" =>
             (loopPc' = "done" /\ calls' = calls /\ loopEvent' = loopEvent)]_vars
    /\ []((loopPc = "select" /\ stopCh = "closed" /\ ~panicked) => ENABLED LoopStop)

\* the loop has exited while an injected event was available to it
C12_Witness ==
    loopPc = "done" /\ \E n \in Names : injector[n] = "blocked"

----------------------------------------------------------------------------
(* C13 *)

\* C13: when the initial listing has failed and start() has returned the error,
\* nothing was injected, the source has been closed and no consumer loop runs.
C13_ListingFailureReleases ==
    (startResult = "err" /\ fsWatcher # "nil" /\ scanIdx = 0 /\ stopCh = "open") =>
        /\ \A n \in Names : injector[n] = "none"
        /\ fsWatcher = "closed"
        /\ loopPc \notin {"select", "filter", "handler"}

----------------------------------------------------------------------------
(* C14 *)

\* C14: when start() has returned an error because the source could not be
\* created or the watch could not be attached, no consumer loop runs and the
\* handler has not been invoked.
C14_FailedStartNeverStarted ==
    (startResult = "err" /\ (fsWatcher = "nil" \/ scanIdx > 0)) =>
        /\ loopPc \notin {"select", "filter", "handler"}
        /\ \A n \in Names, syn \in BOOLEAN : calls[n, syn] = 0

----------------------------------------------------------------------------
(* C15 *)

\* C15: the source exists before the loop runs, the loop runs before the listing
\* is taken and anything is injected, the watch is attached only after the whole
\* scan, and a live event is received only with the watch attached.
C15_StartOrder ==
    /\ loopPc # "none" => fsWatcher # "nil"
    /\ (scanIdx > 0 \/ \E n \in Names : injector[n] # "none") => loopPc # "none"
    /\ watchAttached => (scanIdx > Len(Files) /\ loopPc # "none")
    /\ (liveCount > 0 \/ (loopPc \in {"filter", "handler"} /\ ~loopEvent.syn))
          => watchAttached

\* a live event is in the handler, the scan having injected a directory
C15_Witness ==
    /\ loopPc = "handler" /\ ~loopEvent.syn
    /\ \E n \in Names : injector[n] # "none"

----------------------------------------------------------------------------
(* C16 *)

\* the tracked units that have started and not ended
TrackedPending ==
    (IF loopPc \in {"select", "filter", "handler"} THEN 1 ELSE 0)
    + (IF loopPc \in {"filter", "handler"} THEN 1 ELSE 0)
    + Cardinality({n \in Names : injector[n] \in {"blocked", "sent"}})

\* C16: the counter equals the number of tracked units (consumer loop, event
\* handling, injection task) that have started and not ended; so it is never
\* negative and never zero while a unit is pending.
C16_CounterConsistent == wg = TrackedPending /\ wg >= 0

\* loop, an event handling and two injections are pending
C16_Witness == wg = 4 /\ loopPc = "handler"

----------------------------------------------------------------------------
(* C17 *)

\* C17: a handler invocation begins only in a step of the consumer loop, for the
\* record the loop received last; while it runs no other begins and the loop
\* receives nothing; a record is received only at the select, so invocations
\* follow the order of the receives.
C17_OneHandlerInOrder ==
    [][/\ calls' # calls =>
            /\ loopPc = "filter" /\ loopPc' = "handler" /\ loopEvent' = loopEvent
            /\ calls' = [calls EXCEPT ![Base(loopEvent.Name), loopEvent.syn] = @ + 1]
       /\ loopPc = "handler" =>
            (calls' = calls /\ loopEvent' \in {loopEvent, NoEvent})
       /\ (loopEvent' # loopEvent /\ loopEvent' # NoEvent) => loopPc = "select"]_vars

\* a second invocation is running while another injected event waits
C17_Witness ==
    /\ loopPc = "handler"
    /\ \E n \in Names : calls[n, TRUE] = 1 /\ Base(loopEvent.Name) # n
    /\ \E n \in Names : injector[n] = "blocked"

----------------------------------------------------------------------------
(* C18 *)

\* C18: when stop() has returned nil the consumer loop has exited, no handler
\* invocation runs, no injection is pending and the source is closed, and none
\* of this changes afterwards.
C18_NilStopIsFinal ==
    /\ []((stopResult = "ok" /\ callerPc = "idle") =>
             /\ loopPc = "done"
             /\ \A n \in Names : injector[n] \notin {"blocked", "sent"}
             /\ fsWatcher = "closed" /\ wg = 0)
    /\ [][(stopResult = "ok" /\ callerPc = "idle") =>
             /\ stopResult' = "ok" /\ callerPc' = "idle"
             /\ loopPc' = loopPc /\ injector' = injector
             /\ fsWatcher' = fsWatcher /\ calls' = calls]_vars

\* stop() returned nil and the caller went on (a second stop())
C18_Witness ==
    /\ stopResult = "ok" /\ callerPc = "idle" /\ panicked
    /\ \E n \in Names : calls[n, TRUE] = 1

----------------------------------------------------------------------------
(* C19 *)

\* the entries of the log up to now
Logged == {cmd.log[i] : i \in DOMAIN cmd.log}

\* what must precede the PVC delete call, in order; the retain question counts
\* as declined when confirm returned false, by a "no" or by a failed read
BeforePVCDelete ==
    {<<"workloadOfPVC:owner", "confirm1:yes", "deleteWorkload:ok", c2, "confirm3:yes">> :
        c2 \in {"confirm2:no", "confirm2:err"}}
    \cup {<<"workloadOfPVC:owner", "confirm1:yes", "deleteWorkload:ok", "confirm2:yes",
            "retainPV:ok", "confirm3:yes">>}

\* a failed API call, or "no" to the first question
RunEnders == {"workloadOfPVC:err", "deleteWorkload:err", "retainPV:err", "deletePVC:err",
              "confirm1:no"}

\* C19: the PVC delete call is issued only after, in this order, an owner was
\* resolved, the first question was answered yes, the workload delete
\* succeeded, the PV retain patch was declined or succeeded, and the third
\* question was answered yes; after a failed API call or a "no" to the first
\* question the run has ended and the PVC is not deleted.
C19_PVCDeleteOnlyAfterAll ==
    /\ \A i \in DOMAIN cmd.log :
          cmd.log[i] \in {"deletePVC:ok", "deletePVC:err"}
              => /\ SubSeq(cmd.log, 1, i - 1) \in BeforePVCDelete
                 /\ cmd.owner # NilOwner
    /\ Logged \cap RunEnders # {}
          => /\ cmd.pc = "exit"
             /\ "deletePVC:ok" \notin Logged
             /\ cmd.log[Len(cmd.log)] \in RunEnders

\* the PVC was deleted after the PV was patched
C19_Witness ==
    /\ cmd.pc = "exit"
    /\ cmd.log = <<"workloadOfPVC:owner", "confirm1:yes", "deleteWorkload:ok",
                   "confirm2:yes", "retainPV:ok", "confirm3:yes", "deletePVC:ok">>
    /\ cmd.owner.kind = "Deployment"

====
